---- MODULE Spec2Model ----
(***************************************************************************)
(* Model of the cross-validation harness of solar-line                     *)
(* (src/cross_validation/*.py): the tolerance comparators, the validation  *)
(* runs of the five entry points with their report and exit status, and    *)
(* the Kepler solvers.                                                     *)
(*                                                                         *)
(* Numbers.  The harness computes with IEEE doubles.  The model computes   *)
(* with integers on a small grid and with exact fractions <<n, d>>, d > 0: *)
(* a comparison  x / y <= n / d  of the code is the cross-multiplied       *)
(* x * d <= n * y.  The comparators and the runs do not round; the formula *)
(* library does (see there).                                               *)
(***************************************************************************)
EXTENDS Integers, Sequences, FiniteSets, TLC

VARIABLES
    validator,  \* which entry point runs
    fileState,  \* the snapshot file on disk: "ok", "missing" or "malformed"
    status,     \* "running", "exited", "crashed" (uncaught exception), "checked"
    ip,         \* position in Program(validator)
    snapshot,   \* the part of the loaded snapshot read so far: step -> value
    passed,     \* passed counter (vr.passed / passed)
    failed,     \* failed counter (vr.failed / failed / failures)
    total,      \* validate_trim_thrust.py: scenarios started
    details,    \* detail lines (vr.details / details), in insertion order
    out,        \* everything written so far, in order, with its stream
    exitCode,   \* process exit status, -1 while the process lives
    cin,        \* comparator inputs (comparator specification)
    ks,         \* Kepler solver state (solver specification)
    call,       \* a call of a library function: its name and arguments
    ret         \* the outcome of that call

vars == <<validator, fileState, status, ip, snapshot, passed, failed, total,
          details, out, exitCode, cin, ks, call, ret>>

runVars == <<validator, fileState, status, ip, snapshot, passed, failed, total,
             details, out, exitCode>>

(***************************************************************************)
(* Bounds of the model                                                     *)
(***************************************************************************)
MaxVal == 3
MaxAbsTol == 2
MaxTolDen == 2
MaxRunVal == 2
Unit == 2

Vals == (0 - MaxVal)..MaxVal
AbsTols == 0..MaxAbsTol
RelTols == {<<0, 1>>} \cup {<<1, d>> : d \in 1..MaxTolDen}

Abs(x) == IF x < 0 THEN 0 - x ELSE x
Max(a, b) == IF a >= b THEN a ELSE b

\* fractions <<n, d>> with d > 0
Leq(a, b) == a[1] * b[2] <= b[1] * a[2]
Lt(a, b) == a[1] * b[2] < b[1] * a[2]
IsZero(a) == a[1] = 0

(***************************************************************************)
(* Comparators                                                             *)
(***************************************************************************)

\* validate.py ValidationResult.check, lines 223-228: the error measure
vr_err(rust_val, python_val, abs_tol) ==
    IF python_val = 0 /\ rust_val = 0 THEN <<0, 1>>
    ELSE IF Abs(python_val) > abs_tol
         THEN <<Abs(rust_val - python_val), Abs(python_val)>>
         ELSE <<Abs(rust_val - python_val), 1>>

\* a comparator with exclusive bounds
vr_ok_strict(rust_val, python_val, rel_tol, abs_tol) ==
    \/ Lt(vr_err(rust_val, python_val, abs_tol), rel_tol)
    \/ Abs(rust_val - python_val) < abs_tol

\* validate.py ValidationResult.check, line 230
vr_ok(rust_val, python_val, rel_tol, abs_tol) ==
    \/ Leq(vr_err(rust_val, python_val, abs_tol), rel_tol)
    \/ Abs(rust_val - python_val) <= abs_tol

\* validate_poliastro.py ValidationResult.check, lines 44-49
pa_err(rust_val, poliastro_val, abs_tol) ==
    IF poliastro_val = 0 /\ rust_val = 0 THEN <<0, 1>>
    ELSE IF Abs(poliastro_val) > abs_tol
         THEN <<Abs(rust_val - poliastro_val), Abs(poliastro_val)>>
         ELSE <<Abs(rust_val - poliastro_val), 1>>

\* validate_poliastro.py ValidationResult.check, line 51
pa_ok(rust_val, poliastro_val, rel_tol, abs_tol) ==
    \/ Leq(pa_err(rust_val, poliastro_val, abs_tol), rel_tol)
    \/ Abs(rust_val - poliastro_val) <= abs_tol

\* validate_supplementary.py check, lines 485-498: "PASS", "FAIL", or
\* "ZeroDivisionError" when max(abs(rust_val), abs_tol) is 0
sup_result(rust_val, python_val, rel_tol, abs_tol) ==
    IF Abs(rust_val) < abs_tol /\ Abs(python_val) < abs_tol
    THEN [status |-> "PASS", err |-> <<0, 1>>]
    ELSE IF Abs(rust_val) < abs_tol
    THEN LET diff == <<Abs(python_val), 1>>
         IN  [status |-> IF Lt(diff, rel_tol) THEN "PASS" ELSE "FAIL",
              err |-> diff]
    ELSE IF Max(Abs(rust_val), abs_tol) = 0
    THEN [status |-> "ZeroDivisionError", err |-> <<0, 1>>]
    ELSE LET diff == <<Abs(rust_val - python_val), Max(Abs(rust_val), abs_tol)>>
         IN  [status |-> IF Lt(diff, rel_tol) THEN "PASS" ELSE "FAIL",
              err |-> diff]

\* validate_dag.py check, line 29
dag_ok(rust_val, python_val) == rust_val = python_val

(***************************************************************************)
(* Values of the snapshot, output events, detail lines                     *)
(***************************************************************************)
Num(x) == [kind |-> "num", v |-> x]
Absent == [kind |-> "absent", v |-> 0]       \* the key is not in the snapshot
Malformed == [kind |-> "malformed", v |-> 0] \* the value is not a number
Present == [kind |-> "present", v |-> 0]     \* a section (nested mapping)

\* The values a run reads are multiples of Unit, so that a positive
\* tolerance can lie below the resolution of the values, as 1e-10 and 1e-15
\* do in the harness.
RunVals == {Unit * k : k \in 0..MaxRunVal}
\* rel_tol = 1e-10 .. 3e-2 of the call sites: below every relative error
\* of the grid
TinyRel == <<1, Unit * (MaxRunVal + 1)>>
\* abs_tol = 1e-15 (default), 1e-30, 0.5 on integers: positive, below Unit
TinyAbs == 1
FieldVals == {Absent, Malformed} \cup {Num(x) : x \in RunVals}

Ev(stream, kind, name, lines, counts) ==
    [stream |-> stream, kind |-> kind, name |-> name, lines |-> lines,
     counts |-> counts]

Detail(st, name, err) == [status |-> st, name |-> name, err |-> err]

Step(op, key) ==
    [op |-> op, key |-> key, lo |-> 0, hi |-> 0, ref |-> 0,
     rel_tol |-> <<0, 1>>, abs_tol |-> 0]
AssertStep(key, lo, hi) ==
    [op |-> "assert", key |-> key, lo |-> lo, hi |-> hi, ref |-> 0,
     rel_tol |-> <<0, 1>>, abs_tol |-> 0]
\* a check with its reference value and the tolerances of its call site
CheckStep(key, ref, rel_tol, abs_tol) ==
    [op |-> "check", key |-> key, lo |-> 0, hi |-> 0, ref |-> ref,
     rel_tol |-> rel_tol, abs_tol |-> abs_tol]

(***************************************************************************)
(* The five entry points, each main() abridged to a few of its sections    *)
(* and checks, in program order                                            *)
(***************************************************************************)
Validators == {"validate", "dag", "poliastro", "supplementary", "trim_thrust"}
Loaders == Validators \ {"trim_thrust"}

validate_main ==
    << Step("load", "rust_values.json"),
       Step("section", "constants"),
       CheckStep("mu_sun", Unit, TinyRel, TinyAbs),
       Step("section", "kepler"),
       Step("derive", "solve_kepler"),
       CheckStep("kepler_E", Unit, TinyRel, TinyAbs),
       Step("section", "propagation"),
       Step("derive", "propagate_kepler_scipy"),
       CheckStep("prop_rust_energy_drift", 0, TinyRel, Unit),
       Step("section", "comms"),
       CheckStep("planet_delay_em_consistency", Unit, TinyRel, TinyAbs),
       AssertStep("planet_delay_em_range", 3, 22),
       AssertStep("planet_delay_ej_range", 30, 55),
       Step("summary", ""),
       Step("exit", "") >>

dag_main ==
    << Step("load", "dag_values.json"),
       Step("section", "graph"),
       CheckStep("node_count", Unit, TinyRel, TinyAbs),
       CheckStep("edge_count", Unit, TinyRel, TinyAbs),
       Step("derive", "topological_sort"),
       CheckStep("depth", 0, TinyRel, TinyAbs),
       CheckStep("has_cycle", 0, TinyRel, TinyAbs),
       Step("summary", ""),
       Step("exit", "") >>

poliastro_main ==
    << Step("load", "rust_values.json"),
       Step("section", "constants"),
       CheckStep("mu_sun", Unit, TinyRel, TinyAbs),
       CheckStep("v_leo_circular", Unit, TinyRel, TinyAbs),
       Step("section", "flyby"),
       CheckStep("powered_flyby_v_inf_out", Unit, TinyRel, TinyAbs),
       Step("oberth_assert", "v_inf_gain"),
       CheckStep("oberth_gain_magnitude", Unit, TinyRel, TinyAbs),
       CheckStep("leo_energy", Unit, TinyRel, TinyAbs),
       Step("summary", ""),
       Step("export", "poliastro_results.json"),
       Step("exit", "") >>

supplementary_main ==
    << Step("load", "rust_values.json"),
       Step("section", "relativistic"),
       CheckStep("gamma_001c", Unit, TinyRel, TinyAbs),
       Step("section", "attitude"),
       CheckStep("miss_20_3600_0001", Unit, TinyRel, TinyAbs),
       Step("section", "comms"),
       CheckStep("lt_zero", 0, TinyRel, TinyAbs),
       Step("section", "ephemeris"),
       CheckStep("rt_j2000_month", Unit, TinyRel, TinyAbs),
       Step("summary", ""),
       Step("exit", "") >>

trim_thrust_main ==
    << Step("scenario", "thrustDays=0"),
       Step("scenario", "thrustDays=1"),
       Step("scenario", "thrustDays=3"),
       Step("summary", ""),
       Step("exit", "") >>

Program(v) ==
    CASE v = "validate" -> validate_main
      [] v = "dag" -> dag_main
      [] v = "poliastro" -> poliastro_main
      [] v = "supplementary" -> supplementary_main
      [] v = "trim_thrust" -> trim_thrust_main

Cur == Program(validator)[ip]

At(op) ==
    /\ status = "running"
    /\ ip \in 1..Len(Program(validator))
    /\ Cur.op = op

(***************************************************************************)
(* The accumulator and the checks that write to it                         *)
(***************************************************************************)

\* an uncaught exception leaves main(): the interpreter prints the
\* traceback on stderr and the process ends with status 1
Raise(exc) ==
    /\ status' = "crashed"
    /\ exitCode' = 1
    /\ out' = Append(out, Ev("stderr", "traceback", exc, <<>>, <<>>))
    /\ UNCHANGED <<ip, passed, failed, total, details>>

\* validate.py ValidationResult.check
vr_check(name, rust_val, python_val, rel_tol, abs_tol) ==
    LET ok == vr_ok(rust_val, python_val, rel_tol, abs_tol)
        detail == Detail(IF ok THEN "PASS" ELSE "FAIL", name,
                         vr_err(rust_val, python_val, abs_tol))
    IN  /\ passed' = IF ok THEN passed + 1 ELSE passed
        /\ failed' = IF ok THEN failed ELSE failed + 1
        /\ details' = Append(details, detail)
        /\ out' = IF ok THEN out
                  ELSE Append(out, Ev("stderr", "detail", name, <<detail>>, <<>>))
        /\ UNCHANGED total

\* validate_poliastro.py ValidationResult.check
pa_check(name, rust_val, poliastro_val, rel_tol, abs_tol) ==
    LET ok == pa_ok(rust_val, poliastro_val, rel_tol, abs_tol)
        detail == Detail(IF ok THEN "PASS" ELSE "FAIL", name,
                         pa_err(rust_val, poliastro_val, abs_tol))
    IN  /\ passed' = IF ok THEN passed + 1 ELSE passed
        /\ failed' = IF ok THEN failed ELSE failed + 1
        /\ details' = Append(details, detail)
        /\ out' = IF ok THEN out
                  ELSE Append(out, Ev("stderr", "detail", name, <<detail>>, <<>>))
        /\ UNCHANGED total

\* validate_supplementary.py check: prints its line on stdout, keeps no
\* detail list
sup_check(name, rust_val, python_val, rel_tol, abs_tol) ==
    LET res == sup_result(rust_val, python_val, rel_tol, abs_tol)
        line == Detail(res.status, name, res.err)
    IN  /\ res.status # "ZeroDivisionError"
        /\ passed' = IF res.status = "PASS" THEN passed + 1 ELSE passed
        /\ failed' = IF res.status = "FAIL" THEN failed + 1 ELSE failed
        /\ out' = Append(out, Ev("stdout", "line", name, <<line>>, <<>>))
        /\ UNCHANGED <<total, details>>

\* validate_dag.py check (closure of main); the values are boxed, a
\* malformed value compares unequal
dag_check(name, rust_val, python_val) ==
    LET ok == dag_ok(rust_val, python_val)
        detail == Detail(IF ok THEN "PASS" ELSE "FAIL", name, <<0, 1>>)
    IN  /\ passed' = IF ok THEN passed + 1 ELSE passed
        /\ failed' = IF ok THEN failed ELSE failed + 1
        /\ out' = IF ok THEN out
                  ELSE Append(out, Ev("stderr", "detail", name, <<detail>>, <<>>))
        /\ details' = Append(details, detail)
        /\ UNCHANGED total

\* whether the comparator of validator v raises on these numbers
CompareRaises(v, c, r, rel_tol, abs_tol) ==
    /\ v = "supplementary"
    /\ sup_result(c, r, rel_tol, abs_tol).status = "ZeroDivisionError"

\* the comparator of validator v on numbers
Compare(v, name, c, r, rel_tol, abs_tol) ==
    CASE v = "validate" -> vr_check(name, c, r, rel_tol, abs_tol)
      [] v = "poliastro" -> pa_check(name, c, r, rel_tol, abs_tol)
      [] v = "supplementary" -> sup_check(name, c, r, rel_tol, abs_tol)
      [] v = "dag" -> dag_check(name, Num(c), Num(r))

(***************************************************************************)
(* A validation run: one action per kind of statement of main()            *)
(***************************************************************************)
goto_skips_after_failure ==
    /\ ip' = IF failed > 0 THEN ip + 2 ELSE ip + 1
    /\ UNCHANGED <<status, exitCode>>

Goto == /\ ip' = ip + 1
        /\ UNCHANGED <<status, exitCode>>

Read(val) == snapshot' = snapshot @@ (ip :> val)

\* with open(json_path) as f: rust = json.load(f)
a_load_keeps_going(fs) == "loaded"

LoadResult(fs) ==
    CASE fs = "ok" -> "loaded"
      [] fs = "missing" -> "FileNotFoundError"
      [] fs = "malformed" -> "JSONDecodeError"

Load ==
    /\ At("load")
    /\ IF LoadResult(fileState) = "loaded"
       THEN Goto /\ UNCHANGED <<passed, failed, total, details, out>>
       ELSE Raise(LoadResult(fileState))
    /\ UNCHANGED <<validator, fileState, snapshot, cin, ks, call, ret>>

\* c = rust["constants"] and the like: a KeyError when the key is absent
a_lookup_defaults(val) == "found"

LookupResult(val) ==
    IF val.kind = "absent" THEN "KeyError"
    ELSE IF val.kind = "malformed" THEN "TypeError" ELSE "found"

Section ==
    /\ At("section")
    /\ \E val \in {Present, Absent} :
          /\ Read(val)
          /\ IF LookupResult(val) = "found"
             THEN Goto /\ UNCHANGED <<passed, failed, total, details, out>>
             ELSE Raise(LookupResult(val))
    /\ UNCHANGED <<validator, fileState, cin, ks, call, ret>>

\* a reference derivation that can raise: solve_kepler (RuntimeError),
\* propagate_kepler_scipy (RuntimeError), nx.topological_sort
\* (NetworkXUnfeasible)
Derive ==
    /\ At("derive")
    /\ \E ok \in BOOLEAN :
          IF ok
          THEN Goto /\ UNCHANGED <<passed, failed, total, details, out>>
          ELSE Raise(IF validator = "dag" THEN "NetworkXUnfeasible"
                     ELSE "RuntimeError")
    /\ UNCHANGED <<validator, fileState, snapshot, cin, ks, call, ret>>

\* vr.check(name, c["key"], reference, ...): the candidate is looked up,
\* then compared
Check ==
    /\ At("check")
    /\ \E cand \in FieldVals :
          /\ Read(cand)
          /\ IF LookupResult(cand) = "KeyError"
             THEN Raise("KeyError")
             ELSE IF LookupResult(cand) = "TypeError"
             THEN IF validator = "dag"
                  THEN dag_check(Cur.key, cand, Num(Cur.ref)) /\ Goto
                  ELSE Raise("TypeError")
             ELSE IF CompareRaises(validator, cand.v, Cur.ref, Cur.rel_tol,
                                   Cur.abs_tol)
             THEN Raise("ZeroDivisionError")
             ELSE Compare(validator, Cur.key, cand.v, Cur.ref, Cur.rel_tol,
                          Cur.abs_tol)
                  /\ Goto
    /\ UNCHANGED <<validator, fileState, cin, ks, call, ret>>

\* validate.py lines 636-644: assert lo < x < hi; vr.passed += 1;
\* vr.details.append(...)
DelayVals == {3, 10, 22, 40, 55}

range_assert_uncounted ==
    /\ At("assert")
    /\ \E x \in DelayVals :
          /\ Read(Num(x))
          /\ IF Cur.lo < x /\ x < Cur.hi
             THEN /\ details' = Append(details, Detail("PASS", Cur.key, <<0, 1>>))
                  /\ Goto
                  /\ UNCHANGED <<passed, failed, total, out>>
             ELSE Raise("AssertionError")
    /\ UNCHANGED <<validator, fileState, cin, ks, call, ret>>

RangeAssert ==
    /\ At("assert")
    /\ \E x \in DelayVals :
          /\ Read(Num(x))
          /\ IF Cur.lo < x /\ x < Cur.hi
             THEN /\ passed' = passed + 1
                  /\ details' = Append(details, Detail("PASS", Cur.key, <<0, 1>>))
                  /\ Goto
                  /\ UNCHANGED <<failed, total, out>>
             ELSE Raise("AssertionError")
    /\ UNCHANGED <<validator, fileState, cin, ks, call, ret>>

\* validate_poliastro.py lines 316-317: assert v_inf_gain > burn_dv
OberthAssert ==
    /\ At("oberth_assert")
    /\ \E v_inf_gain \in RunVals, burn_dv \in RunVals :
          /\ Read(Num(v_inf_gain))
          /\ IF v_inf_gain > burn_dv
             THEN Goto /\ UNCHANGED <<passed, failed, total, details, out>>
             ELSE Raise("AssertionError")
    /\ UNCHANGED <<validator, fileState, cin, ks, call, ret>>

\* validate_trim_thrust.py lines 184-240: one scenario of the loop
FailLines(name, bits) ==
    LET line(i) == Ev("stdout", "fail", name, <<>>, <<i>>)
    IN  (IF bits[1] THEN <<line(1)>> ELSE <<>>)
          \o (IF bits[2] THEN <<line(2)>> ELSE <<>>)
          \o (IF bits[3] THEN <<line(3)>> ELSE <<>>)

Scenario ==
    /\ At("scenario")
    /\ total' = total + 1
    /\ \E reached \in BOOLEAN, bits \in [1..3 -> BOOLEAN] :
          IF ~reached
          THEN /\ failed' = failed + 1
               /\ out' = Append(out, Ev("stdout", "fail", Cur.key, <<>>, <<0>>))
          ELSE /\ failed' = failed + Len(FailLines(Cur.key, bits))
               /\ out' = out \o FailLines(Cur.key, bits)
                             \o (IF Len(FailLines(Cur.key, bits)) = 0
                                 THEN <<Ev("stdout", "ok", Cur.key, <<>>, <<>>)>>
                                 ELSE <<>>)
    /\ Goto
    /\ UNCHANGED <<validator, fileState, snapshot, passed, details, cin, ks, call, ret>>

\* the final summary of each entry point
Verdict(f) == IF f = 0 THEN "all passed" ELSE "failed"

summary_lists_failures(v) ==
    Ev("stdout", "summary", Verdict(failed),
       SelectSeq(details, LAMBDA d : d.status = "FAIL"), <<passed, failed>>)

SummaryEvent(v) ==
    CASE v \in {"validate", "poliastro", "dag"} ->
            Ev("stdout", "summary", Verdict(failed), details, <<passed, failed>>)
      [] v = "supplementary" ->
            Ev("stdout", "summary", Verdict(failed), <<>>,
               <<passed, passed + failed, failed>>)
      [] v = "trim_thrust" ->
            Ev("stdout", "summary", Verdict(failed), <<>>, <<failed, total>>)

Summary ==
    /\ At("summary")
    /\ out' = Append(out, SummaryEvent(validator))
    /\ Goto
    /\ UNCHANGED <<validator, fileState, snapshot, passed, failed, total,
                   details, cin, ks, call, ret>>

\* validate_poliastro.py lines 340-353: the JSON summary document
Export ==
    /\ At("export")
    /\ out' = Append(out, Ev("file", "json", Cur.key, details,
                             <<passed + failed, passed, failed>>))
    /\ Goto
    /\ UNCHANGED <<validator, fileState, snapshot, passed, failed, total,
                   details, cin, ks, call, ret>>

\* the exit status of each entry point
exit_always_zero(f) == 0

validate_exit(f) == IF f = 0 THEN 0 ELSE 1
dag_exit(f) == IF f = 0 THEN 0 ELSE 1
poliastro_exit(f) == IF f = 0 THEN 0 ELSE 1
supplementary_exit(f) == IF f > 0 THEN 1 ELSE 0
trim_thrust_exit(f) == IF f = 0 THEN 0 ELSE 1

ExitStatus(v, f) ==
    CASE v = "validate" -> validate_exit(f)
      [] v = "dag" -> dag_exit(f)
      [] v = "poliastro" -> poliastro_exit(f)
      [] v = "supplementary" -> supplementary_exit(f)
      [] v = "trim_thrust" -> trim_thrust_exit(f)

Exit ==
    /\ At("exit")
    /\ status' = "exited"
    /\ exitCode' = ExitStatus(validator, failed)
    /\ UNCHANGED <<validator, fileState, ip, snapshot, passed, failed, total,
                   details, out, cin, ks, call, ret>>

IdleCin == [c |-> 0, r |-> 0, rel_tol |-> <<0, 1>>, abs_tol |-> 0]
IdleKs == [impl |-> "none", iter |-> 0, small |-> FALSE, status |-> "idle"]
IdleCall == [fn |-> "none"]
IdleRet == [status |-> "idle"]

Init ==
    /\ validator \in Validators
    /\ fileState \in {"ok", "missing", "malformed"}
    /\ status = "running"
    /\ ip = 1
    /\ snapshot = <<>>
    /\ passed = 0
    /\ failed = 0
    /\ total = 0
    /\ details = <<>>
    /\ out = <<>>
    /\ exitCode = -1
    /\ cin = IdleCin
    /\ ks = IdleKs
    /\ call = IdleCall
    /\ ret = IdleRet

Next ==
    \/ Load
    \/ Section
    \/ Derive
    \/ Check
    \/ RangeAssert
    \/ OberthAssert
    \/ Scenario
    \/ Summary
    \/ Export
    \/ Exit

Spec == Init /\ [][Next]_vars

(***************************************************************************)
(* The comparators on their own: one comparison of arbitrary inputs        *)
(***************************************************************************)
Comparators == {"validate", "poliastro", "supplementary"}

CheckInputs ==
    [c : Vals, r : Vals, rel_tol : RelTols, abs_tol : AbsTols]

InitCheck ==
    /\ validator \in Comparators
    /\ cin \in CheckInputs
    /\ fileState = "ok"
    /\ status = "comparing"
    /\ ip = 0
    /\ snapshot = <<>>
    /\ passed = 0
    /\ failed = 0
    /\ total = 0
    /\ details = <<>>
    /\ out = <<>>
    /\ exitCode = -1
    /\ ks = IdleKs
    /\ call = IdleCall
    /\ ret = IdleRet

\* one call check("cmp", cin.c, cin.r, cin.rel_tol, cin.abs_tol)
ApplyCheck ==
    /\ status = "comparing"
    /\ IF CompareRaises(validator, cin.c, cin.r, cin.rel_tol, cin.abs_tol)
       THEN Raise("ZeroDivisionError")
       ELSE /\ Compare(validator, "cmp", cin.c, cin.r, cin.rel_tol, cin.abs_tol)
            /\ status' = "checked"
            /\ UNCHANGED <<ip, exitCode>>
    /\ UNCHANGED <<validator, fileState, snapshot, cin, ks, call, ret>>

NextCheck == ApplyCheck

SpecCheck == InitCheck /\ [][NextCheck]_vars

(***************************************************************************)
(* The Kepler solvers.  The Newton iterate is not computed: whether the    *)
(* step taken is below tol is an input of each step.                       *)
(***************************************************************************)
validate_max_iter == 50
supplementary_max_iter == 100

Solvers == {"validate", "supplementary"}

max_iter(impl) ==
    IF impl = "validate" THEN validate_max_iter ELSE supplementary_max_iter

InitKepler ==
    /\ ks \in {[impl |-> i, iter |-> 0, small |-> FALSE, status |-> "iterating"] :
                 i \in Solvers}
    /\ validator = "none"
    /\ fileState = "ok"
    /\ status = "idle"
    /\ ip = 0
    /\ snapshot = <<>>
    /\ passed = 0
    /\ failed = 0
    /\ total = 0
    /\ details = <<>>
    /\ out = <<>>
    /\ exitCode = -1
    /\ cin = IdleCin
    /\ call = IdleCall
    /\ ret = IdleRet

\* one pass of the loop body: E is updated, then abs(delta) < tol is tested;
\* validate.py returns from inside the loop, validate_supplementary.py
\* breaks and returns E after it
NewtonStep ==
    /\ ks.status = "iterating"
    /\ ks.iter < max_iter(ks.impl)
    /\ \E small \in BOOLEAN :
          ks' = [ks EXCEPT !.iter = ks.iter + 1,
                           !.small = small,
                           !.status = IF small THEN "returned" ELSE "iterating"]
    /\ UNCHANGED runVars
    /\ UNCHANGED <<cin, call, ret>>

\* the loop ran max_iter times without the test succeeding
LoopExhausted ==
    /\ ks.status = "iterating"
    /\ ks.iter = max_iter(ks.impl)
    /\ ks' = [ks EXCEPT !.status = IF ks.impl = "validate"
                                   THEN "RuntimeError" ELSE "returned"]
    /\ UNCHANGED runVars
    /\ UNCHANGED <<cin, call, ret>>

NextKepler == NewtonStep \/ LoopExhausted

SpecKepler == InitKepler /\ [][NextKepler]_vars

(***************************************************************************)
(* The formula library.  A double is modelled by a fixed-point number: the *)
(* integer x stands for x / Scale, and every division, product and square  *)
(* root is rounded to the nearest representable number, as the operations  *)
(* on doubles are.  Sums and differences are exact.                        *)
(***************************************************************************)
Scale == 10

\* n / d rounded to the nearest integer, d # 0
RoundDiv(n, d) ==
    LET an == Abs(n)
        ad == Abs(d)
        q == (2 * an + ad) \div (2 * ad)
    IN  IF (n < 0) = (d < 0) THEN q ELSE 0 - q

fdiv(a, b) == RoundDiv(a * Scale, b)
fmul(a, b) == RoundDiv(a * b, Scale)

RECURSIVE RootFrom(_, _)
RootFrom(n, k) == IF k * k + k >= n THEN k ELSE RootFrom(n, k + 1)

\* math.sqrt on a / Scale, a >= 0
fsqrt(a) == RootFrom(a * Scale, 0)

Returned(v_peri_out, v_inf_out, value) ==
    [status |-> "returned", v_peri_out |-> v_peri_out,
     v_inf_out |-> v_inf_out, value |-> value]
Raised(exc) ==
    [status |-> exc, v_peri_out |-> 0, v_inf_out |-> 0, value |-> <<0, 1>>]

\* validate.py powered_flyby, lines 134-154.  The turn angle is not
\* computed, only whether computing it raises.  The threshold 1e-10 of
\* line 147 lies below the resolution of the grid.
powered_flyby(mu_planet, v_inf_mag, r_periapsis, burn_dv) ==
    LET v_inf_sq == fmul(v_inf_mag, v_inf_mag)
        a_in == 0 - fdiv(mu_planet, v_inf_sq)
        e_in == Scale - fdiv(r_periapsis, a_in)
        v_peri_in == fsqrt(v_inf_sq + fdiv(2 * mu_planet, r_periapsis))
        v_peri_out == v_peri_in + burn_dv
        v_inf_out_sq == fmul(v_peri_out, v_peri_out)
                           - fdiv(2 * mu_planet, r_periapsis)
        v_inf_out == IF v_inf_out_sq > 0 THEN fsqrt(v_inf_out_sq) ELSE 0
        v_out_sq == fmul(v_inf_out, v_inf_out)
        a_out == 0 - fdiv(mu_planet, v_out_sq)
    IN  IF v_inf_sq = 0 THEN Raised("ZeroDivisionError")
        ELSE IF a_in = 0 THEN Raised("ZeroDivisionError")
        ELSE IF e_in = 0 THEN Raised("ZeroDivisionError")
        ELSE IF Abs(fdiv(Scale, e_in)) > Scale THEN Raised("ValueError")
        ELSE IF v_inf_out > 0 /\ v_out_sq = 0 THEN Raised("ZeroDivisionError")
        ELSE IF v_inf_out > 0 /\ a_out = 0 THEN Raised("ZeroDivisionError")
        ELSE Returned(v_peri_out, v_inf_out, <<0, 1>>)

\* validate.py oberth_dv_gain, lines 157-163
oberth_dv_gain(mu, r_peri, v_inf, burn_dv) ==
    LET v_peri == fsqrt(fmul(v_inf, v_inf) + fdiv(2 * mu, r_peri))
        v_peri_after == v_peri + burn_dv
        v_inf_after_sq == fmul(v_peri_after, v_peri_after) - fdiv(2 * mu, r_peri)
        v_inf_after == IF v_inf_after_sq > 0 THEN fsqrt(v_inf_after_sq) ELSE 0
    IN  Returned(v_peri_after, v_inf_after,
                 <<(v_inf_after - v_inf) - burn_dv, 1>>)

\* validate.py oberth_efficiency, lines 166-175; the value is
\* (delta_v_inf / burn_dv) - 1.0, kept as the fraction it rounds
oberth_efficiency(mu, r_peri, v_inf, burn_dv) ==
    LET v_peri == fsqrt(fmul(v_inf, v_inf) + fdiv(2 * mu, r_peri))
        v_peri_after == v_peri + burn_dv
        v_inf_after_sq == fmul(v_peri_after, v_peri_after) - fdiv(2 * mu, r_peri)
        v_inf_after == IF v_inf_after_sq > 0 THEN fsqrt(v_inf_after_sq) ELSE 0
        delta_v_inf == v_inf_after - v_inf
    IN  IF burn_dv <= 0 THEN Returned(0, 0, <<0, 1>>)
        ELSE Returned(v_peri_after, v_inf_after,
                      <<fdiv(delta_v_inf, burn_dv) - Scale, Scale>>)

\* validate_poliastro.py main, lines 291 and 310-312: the reference for
\* powered_flyby_v_inf_out; math.sqrt raises ValueError on a negative number
v_inf_out_pa(mu_jupiter_pa, r_peri_fb, v_inf, burn_dv) ==
    LET v_peri_pa == fsqrt(fmul(v_inf, v_inf) + fdiv(2 * mu_jupiter_pa, r_peri_fb))
        v_peri_pow_pa == v_peri_pa + burn_dv
        radicand == fmul(v_peri_pow_pa, v_peri_pow_pa)
                       - fdiv(2 * mu_jupiter_pa, r_peri_fb)
    IN  IF radicand < 0 THEN Raised("ValueError")
        ELSE Returned(v_peri_pow_pa, fsqrt(radicand), <<0, 1>>)

\* the radicand under the outbound square root, as all four compute it
OutboundRadicand(mu, r_peri, v_inf, burn_dv) ==
    LET v_peri == fsqrt(fmul(v_inf, v_inf) + fdiv(2 * mu, r_peri))
    IN  fmul(v_peri + burn_dv, v_peri + burn_dv) - fdiv(2 * mu, r_peri)

MaxMu == 2
MaxRadius == 2
MaxSpeed == 3
MaxBurn == 3

FlybyFns ==
    {"powered_flyby", "oberth_dv_gain", "oberth_efficiency", "v_inf_out_pa"}

FlybyCalls ==
    [fn : FlybyFns,
     mu : {k * Scale : k \in 1..MaxMu},
     r_peri : {k * Scale : k \in 1..MaxRadius},
     v_inf : {k * Scale : k \in 0..MaxSpeed},
     burn_dv : {k * Scale : k \in (0 - MaxBurn)..MaxBurn}]

InitFlyby ==
    /\ call \in FlybyCalls
    /\ ret = IdleRet
    /\ validator = "none"
    /\ fileState = "ok"
    /\ status = "idle"
    /\ ip = 0
    /\ snapshot = <<>>
    /\ passed = 0
    /\ failed = 0
    /\ total = 0
    /\ details = <<>>
    /\ out = <<>>
    /\ exitCode = -1
    /\ cin = IdleCin
    /\ ks = IdleKs

FlybyResult(c) ==
    CASE c.fn = "powered_flyby" ->
            powered_flyby(c.mu, c.v_inf, c.r_peri, c.burn_dv)
      [] c.fn = "oberth_dv_gain" ->
            oberth_dv_gain(c.mu, c.r_peri, c.v_inf, c.burn_dv)
      [] c.fn = "oberth_efficiency" ->
            oberth_efficiency(c.mu, c.r_peri, c.v_inf, c.burn_dv)
      [] c.fn = "v_inf_out_pa" ->
            v_inf_out_pa(c.mu, c.r_peri, c.v_inf, c.burn_dv)

CallFlyby ==
    /\ ret = IdleRet
    /\ call.fn \in FlybyFns
    /\ ret' = FlybyResult(call)
    /\ UNCHANGED runVars
    /\ UNCHANGED <<cin, ks, call>>

NextFlyby == CallFlyby

SpecFlyby == InitFlyby /\ [][NextFlyby]_vars

(***************************************************************************)
(* The graph checks of validate_dag.py.  A graph is the node count n and   *)
(* the set of edges <<u, v>> over the nodes 0..n-1, as main() rebuilds it  *)
(* in networkx from the snapshot.                                          *)
(***************************************************************************)
MaxEdges == 2
MaxExport == 2

\* the nodes of the largest graph
DagNodes == {0, 1, 2}
MaxNodes == Cardinality(DagNodes)

NodesOf(n) == 0..(n - 1)

SeqsUpTo(S, k) == UNION {[1..m -> S] : m \in 0..k}

Range(s) == {s[i] : i \in DOMAIN s}

\* the edge sets of at most MaxEdges edges over the nodes 0..n-1
Graphs(n) ==
    {Range(l) : l \in SeqsUpTo(NodesOf(n) \X NodesOf(n), MaxEdges)}

\* the pairs <<u, v>> with a path of at least one edge from u to v
RECURSIVE Closure(_, _)
Closure(R, k) ==
    IF k = 0 THEN R
    ELSE Closure(R \cup {<<pq[1][1], pq[2][2]>> :
                            pq \in {x \in R \X R : x[1][2] = x[2][1]}}, k - 1)

\* nx.ancestors(G, i), nx.descendants(G, i): the node itself is left out
ancestors(E, n, i) == {j \in NodesOf(n) : j # i /\ <<j, i>> \in Closure(E, n)}
descendants(E, n, i) == {j \in NodesOf(n) : j # i /\ <<i, j>> \in Closure(E, n)}

\* not nx.is_directed_acyclic_graph(G)
has_cycle(E, n) == \E i \in NodesOf(n) : <<i, i>> \in Closure(E, n)

\* sorted() of a set
RECURSIVE sorted_set(_)
sorted_set(S) ==
    IF S = {} THEN <<>>
    ELSE LET m == CHOOSE x \in S : \A y \in S : x <= y
         IN  <<m>> \o sorted_set(S \ {m})

Insert(x, s) ==
    LET k == Cardinality({i \in 1..Len(s) : s[i] <= x})
    IN  SubSeq(s, 1, k) \o <<x>> \o SubSeq(s, k + 1, Len(s))

\* a comparison of the export as it stands
unsorted(s) == s

\* sorted() of a list
RECURSIVE sorted(_)
sorted(s) == IF s = <<>> THEN <<>> ELSE Insert(Head(s), sorted(Tail(s)))

\* lines 103-105 and 110-112: check(f"all_upstream[{i}]", rust_up, nx_up)
upstream_ok(export, E, n, i) ==
    dag_ok(sorted(export), sorted_set(ancestors(E, n, i)))
downstream_ok(export, E, n, i) ==
    dag_ok(sorted(export), sorted_set(descendants(E, n, i)))

DagRet(st, ok, ok2) == [status |-> st, ok |-> ok, ok2 |-> ok2]

DagCall(fn, n, E, export, node, flag) ==
    [fn |-> fn, n |-> n, edges |-> E, export |-> export, node |-> node,
     flag |-> flag]

ReachCalls ==
    {DagCall(fn, n, E, x, i, FALSE) :
        fn \in {"all_upstream", "all_downstream"},
        n \in {MaxNodes}, E \in Graphs(MaxNodes),
        x \in SeqsUpTo(NodesOf(MaxNodes), MaxExport), i \in NodesOf(MaxNodes)}

\* lines 57-61: pos = {node: idx for idx, node in enumerate(rust_topo)};
\* a node listed twice keeps its last index
pos(rust_topo, node) ==
    CHOOSE i \in DOMAIN rust_topo :
        /\ rust_topo[i] = node
        /\ \A j \in DOMAIN rust_topo : rust_topo[j] = node => j <= i

\* the first node without a predecessor among the nodes left, then the rest
RECURSIVE library_order(_, _)
library_order(E, left) ==
    IF left = {} THEN <<>>
    ELSE IF \A x \in left : \E y \in left : <<y, x>> \in E THEN <<>>
    ELSE LET m == CHOOSE x \in left :
                      /\ \A y \in left : <<y, x>> \notin E
                      /\ \A z \in left :
                            (\A y \in left : <<y, z>> \notin E) => x <= z
         IN  <<m>> \o library_order(E, left \ {m})

\* a validation that accepts the one order the library lists
topo_is_library_order(rust_topo, E) ==
    rust_topo = library_order(E, Range(rust_topo))

\* lines 56-61 for an order that names both ends of every edge
topo_valid(rust_topo, E) ==
    \A e \in E : ~(pos(rust_topo, e[1]) >= pos(rust_topo, e[2]))

\* lines 56-61; G.edges() is walked in the order of the snapshot's edge
\* list, which the edge set does not keep: when one edge names a node the
\* order lacks and another is out of order, either is met first
TopoOutcomes(rust_topo, is_none, E) ==
    LET lacking == {e \in E : e[1] \notin Range(rust_topo)
                                 \/ e[2] \notin Range(rust_topo)}
        present == E \ lacking
    IN  IF is_none THEN {"valid"}
        ELSE (IF lacking # {} THEN {"KeyError"} ELSE {})
             \cup (IF ~topo_valid(rust_topo, present) THEN {"invalid"} ELSE {})
             \cup (IF lacking = {} /\ topo_valid(rust_topo, present)
                   THEN {"valid"} ELSE {})

TopoCalls ==
    {DagCall("topo_sort", n, E, x, 0, none) :
        n \in {0, MaxNodes}, E \in Graphs(MaxNodes),
        x \in SeqsUpTo(NodesOf(MaxNodes), MaxNodes), none \in BOOLEAN}

CycleCalls ==
    {DagCall("has_cycle", MaxNodes, E, <<>>, 0, flag) :
        E \in Graphs(MaxNodes), flag \in BOOLEAN}

InitDag ==
    /\ call \in ReachCalls \cup CycleCalls
               \cup {c \in TopoCalls :
                       /\ c.edges \subseteq NodesOf(c.n) \X NodesOf(c.n)
                       /\ Range(c.export) \subseteq NodesOf(c.n)
                       /\ c.flag => c.export = <<>>}
    /\ ret = IdleRet
    /\ validator = "none"
    /\ fileState = "ok"
    /\ status = "idle"
    /\ ip = 0
    /\ snapshot = <<>>
    /\ passed = 0
    /\ failed = 0
    /\ total = 0
    /\ details = <<>>
    /\ out = <<>>
    /\ exitCode = -1
    /\ cin = IdleCin
    /\ ks = IdleKs

CheckUpstream ==
    /\ ret = IdleRet
    /\ call.fn = "all_upstream"
    /\ ret' = DagRet("returned",
                     upstream_ok(call.export, call.edges, call.n, call.node),
                     TRUE)
    /\ UNCHANGED runVars
    /\ UNCHANGED <<cin, ks, call>>

CheckDownstream ==
    /\ ret = IdleRet
    /\ call.fn = "all_downstream"
    /\ ret' = DagRet("returned",
                     downstream_ok(call.export, call.edges, call.n, call.node),
                     TRUE)
    /\ UNCHANGED runVars
    /\ UNCHANGED <<cin, ks, call>>

\* lines 53-64: check("topo_sort_valid", True, topo_valid) and
\* check("topo_sort_length", len(rust_topo) if rust_topo else 0, n);
\* call.flag says that rust_topo is None
CheckTopoSort ==
    /\ ret = IdleRet
    /\ call.fn = "topo_sort"
    /\ \E o \in TopoOutcomes(call.export, call.flag, call.edges) :
          ret' = IF o = "KeyError" THEN DagRet("KeyError", FALSE, FALSE)
                 ELSE DagRet("returned",
                             dag_ok(TRUE, o = "valid"),
                             dag_ok(IF call.flag \/ call.export = <<>>
                                    THEN 0 ELSE Len(call.export), call.n))
    /\ UNCHANGED runVars
    /\ UNCHANGED <<cin, ks, call>>

\* line 145: check("has_cycle", rust["has_cycle"], not
\* nx.is_directed_acyclic_graph(G)), reached only if
\* list(nx.topological_sort(G)) of line 67 has not raised NetworkXUnfeasible
CheckHasCycle ==
    /\ ret = IdleRet
    /\ call.fn = "has_cycle"
    /\ ret' = IF has_cycle(call.edges, call.n)
              THEN DagRet("NetworkXUnfeasible", FALSE, FALSE)
              ELSE DagRet("returned",
                          dag_ok(call.flag, has_cycle(call.edges, call.n)),
                          TRUE)
    /\ UNCHANGED runVars
    /\ UNCHANGED <<cin, ks, call>>

NextDag ==
    \/ CheckUpstream
    \/ CheckDownstream
    \/ CheckTopoSort
    \/ CheckHasCycle

SpecDag == InitDag /\ [][NextDag]_vars

(***************************************************************************)
(* Hohmann transfer (validate.py vis_viva, hohmann_dv), on the fixed-point *)
(* numbers of the formula library                                          *)
(***************************************************************************)
HohmannRet(st, dv1, dv2) == [status |-> st, dv1 |-> dv1, dv2 |-> dv2]

\* validate.py vis_viva, lines 28-30: the number under the root
vis_viva_sq(mu, r, a) == fmul(mu, fdiv(2 * Scale, r) - fdiv(Scale, a))

\* math.sqrt(mu / r), lines 36 and 39: the number under the root
v_circ_sq(mu, r) == fdiv(mu, r)

\* a transfer that keeps the sign of each burn
hohmann_dv_signed(mu, r1, r2) ==
    LET a_transfer == fdiv(r1 + r2, 2 * Scale)
    IN  IF vis_viva_sq(mu, r1, a_transfer) < 0
           \/ vis_viva_sq(mu, r2, a_transfer) < 0
        THEN HohmannRet("ValueError", 0, 0)
        ELSE HohmannRet("returned",
                 fsqrt(vis_viva_sq(mu, r1, a_transfer)) - fsqrt(v_circ_sq(mu, r1)),
                 fsqrt(v_circ_sq(mu, r2)) - fsqrt(vis_viva_sq(mu, r2, a_transfer)))

\* validate.py hohmann_dv, lines 33-42
hohmann_dv(mu, r1, r2) ==
    LET a_transfer == fdiv(r1 + r2, 2 * Scale)
        v_circ_1 == fsqrt(v_circ_sq(mu, r1))
        v_transfer_1 == fsqrt(vis_viva_sq(mu, r1, a_transfer))
        dv1 == Abs(v_transfer_1 - v_circ_1)
        v_circ_2 == fsqrt(v_circ_sq(mu, r2))
        v_transfer_2 == fsqrt(vis_viva_sq(mu, r2, a_transfer))
        dv2 == Abs(v_circ_2 - v_transfer_2)
    IN  IF vis_viva_sq(mu, r1, a_transfer) < 0
           \/ vis_viva_sq(mu, r2, a_transfer) < 0
        THEN HohmannRet("ValueError", 0, 0)
        ELSE HohmannRet("returned", dv1, dv2)

HohmannRadii == Scale..((MaxRadius + 1) * Scale)

HohmannCalls ==
    [fn : {"hohmann_dv"},
     mu : {k * Scale : k \in 1..MaxMu},
     r1 : HohmannRadii,
     r2 : HohmannRadii]

InitHohmann ==
    /\ call \in HohmannCalls
    /\ ret = IdleRet
    /\ validator = "none"
    /\ fileState = "ok"
    /\ status = "idle"
    /\ ip = 0
    /\ snapshot = <<>>
    /\ passed = 0
    /\ failed = 0
    /\ total = 0
    /\ details = <<>>
    /\ out = <<>>
    /\ exitCode = -1
    /\ cin = IdleCin
    /\ ks = IdleKs

CallHohmann ==
    /\ ret = IdleRet
    /\ call.fn = "hohmann_dv"
    /\ ret' = hohmann_dv(call.mu, call.r1, call.r2)
    /\ UNCHANGED runVars
    /\ UNCHANGED <<cin, ks, call>>

NextHohmann == CallHohmann

SpecHohmann == InitHohmann /\ [][NextHohmann]_vars

(***************************************************************************)
(* validate_dag.py: the rebuilt graph, the depths and the critical path    *)
(***************************************************************************)

\* lines 39-44: G = nx.DiGraph(); the nodes 0..n-1 are added, then every
\* listed edge, which adds its endpoints when the graph lacks them and
\* adds nothing when the pair is already an edge
graph_nodes(n, edge_list) ==
    NodesOf(n) \cup {edge_list[k][1] : k \in DOMAIN edge_list}
               \cup {edge_list[k][2] : k \in DOMAIN edge_list}

number_of_nodes(n, edge_list) == Cardinality(graph_nodes(n, edge_list))

\* a count of the listed pairs, repeated or not
number_of_listed_edges(edge_list) == Len(edge_list)

number_of_edges(edge_list) == Cardinality(Range(edge_list))

\* the orders nx.topological_sort(G) can yield on an acyclic graph
TopoOrders(E, n) ==
    {o \in [1..n -> NodesOf(n)] :
        /\ \A a, b \in 1..n : a # b => o[a] # o[b]
        /\ \A e \in E : \E a, b \in 1..n : a < b /\ o[a] = e[1] /\ o[b] = e[2]}

\* a relaxation that looks at the node's own depth before its predecessors
\* have raised it
relax_from_zero(depths, E, n, node) ==
    [succ \in NodesOf(n) |->
        IF <<node, succ>> \in E /\ depths[succ] < 1 THEN 1 ELSE depths[succ]]

\* lines 74-77, the inner loop for one node: every successor is raised to
\* the depth of the node plus one when it lies below
relax_successors(depths, E, n, node) ==
    [succ \in NodesOf(n) |->
        IF <<node, succ>> \in E /\ depths[succ] < depths[node] + 1
        THEN depths[node] + 1
        ELSE depths[succ]]

\* lines 73-77: nx_depths = [0] * n, then the nodes in topological order
RECURSIVE relax_in_order(_, _, _, _)
relax_in_order(depths, E, n, order) ==
    IF order = <<>> THEN depths
    ELSE relax_in_order(relax_successors(depths, E, n, Head(order)), E, n,
                        Tail(order))

nx_depths(E, n, order) ==
    relax_in_order([i \in NodesOf(n) |-> 0], E, n, order)

\* max(nx_depths), for n > 0
max_depth(depths) ==
    CHOOSE m \in Range(depths) : \A x \in Range(depths) : x <= m

\* lines 92-97: every consecutive pair of the path is an edge
crit_valid_any(rust_crit, E) == TRUE

crit_valid(rust_crit, E) ==
    \A k \in 1..(Len(rust_crit) - 1) :
        <<rust_crit[k], rust_crit[k + 1]>> \in E

DepthRet(st, ok, depths) == [status |-> st, ok |-> ok, depths |-> depths]
CritRet(st, ok_length, ok_depth, ok_valid) ==
    [status |-> st, ok_length |-> ok_length, ok_depth |-> ok_depth,
     ok_valid |-> ok_valid]
BuildRet(ok_nodes, ok_edges) ==
    [status |-> "returned", ok_nodes |-> ok_nodes, ok_edges |-> ok_edges]

\* the snapshots: a node count, the edge list as listed, the exported
\* edge count
BuildCalls ==
    [fn : {"build"}, n : {MaxNodes - 1, MaxNodes},
     edge_list : SeqsUpTo(NodesOf(MaxNodes) \X NodesOf(MaxNodes), MaxEdges),
     edge_count : 0..MaxEdges]

\* a graph, a node and the candidate's depth for it
DepthCalls ==
    [fn : {"depth"}, n : {MaxNodes}, edges : Graphs(MaxNodes),
     node : NodesOf(MaxNodes), depth : NodesOf(MaxNodes)]

\* a graph and the candidate's critical path, which may name a node
\* (MaxNodes) that the graph lacks
CritCalls ==
    [fn : {"critical_path"}, n : {MaxNodes}, edges : Graphs(MaxNodes),
     rust_crit : SeqsUpTo(0..MaxNodes, MaxNodes)]

InitGraph ==
    /\ call \in BuildCalls \cup DepthCalls \cup CritCalls
    /\ ret = IdleRet
    /\ validator = "none"
    /\ fileState = "ok"
    /\ status = "idle"
    /\ ip = 0
    /\ snapshot = <<>>
    /\ passed = 0
    /\ failed = 0
    /\ total = 0
    /\ details = <<>>
    /\ out = <<>>
    /\ exitCode = -1
    /\ cin = IdleCin
    /\ ks = IdleKs

\* lines 48-49: check("node_count", ...) and check("edge_count", ...)
CheckBuild ==
    /\ ret = IdleRet
    /\ call.fn = "build"
    /\ ret' = BuildRet(dag_ok(call.n, number_of_nodes(call.n, call.edge_list)),
                       dag_ok(call.edge_count, number_of_edges(call.edge_list)))
    /\ UNCHANGED runVars
    /\ UNCHANGED <<cin, ks, call>>

\* lines 67-80: check(f"depth[{i}]", rust["depths"][i], nx_depths[i]); on
\* a cyclic graph line 67 raises
CheckDepth ==
    /\ ret = IdleRet
    /\ call.fn = "depth"
    /\ IF has_cycle(call.edges, call.n)
       THEN ret' = DepthRet("NetworkXUnfeasible", FALSE, <<>>)
       ELSE \E order \in TopoOrders(call.edges, call.n) :
               LET depths == nx_depths(call.edges, call.n, order)
               IN  ret' = DepthRet("returned",
                                   dag_ok(call.depth, depths[call.node]),
                                   depths)
    /\ UNCHANGED runVars
    /\ UNCHANGED <<cin, ks, call>>

\* lines 84-98: the three critical-path checks; nx.dag_longest_path(G) has
\* max_depth + 1 nodes on a graph with nodes
CheckCriticalPath ==
    /\ ret = IdleRet
    /\ call.fn = "critical_path"
    /\ IF has_cycle(call.edges, call.n)
       THEN ret' = CritRet("NetworkXUnfeasible", FALSE, FALSE, FALSE)
       ELSE \E order \in TopoOrders(call.edges, call.n) :
               LET deepest == max_depth(nx_depths(call.edges, call.n, order))
               IN  ret' = CritRet("returned",
                                  dag_ok(Len(call.rust_crit), deepest + 1),
                                  dag_ok(Len(call.rust_crit) - 1, deepest),
                                  dag_ok(TRUE, crit_valid(call.rust_crit,
                                                          call.edges)))
    /\ UNCHANGED runVars
    /\ UNCHANGED <<cin, ks, call>>

NextGraph ==
    \/ CheckBuild
    \/ CheckDepth
    \/ CheckCriticalPath

SpecGraph == InitGraph /\ [][NextGraph]_vars

(***************************************************************************)
(* validate_dag.py: the independent count of edge crossings                *)
(***************************************************************************)
MaxGrid == 2

GridPoints == (0..MaxGrid) \X (0..MaxGrid)

\* lines 170-171
cross(o, a, b) ==
    (a[1] - o[1]) * (b[2] - o[2]) - (a[2] - o[2]) * (b[1] - o[1])

\* a test that also accepts segments that only touch
segments_touch(p1, p2, p3, p4) ==
    LET d1 == cross(p3, p4, p1)
        d2 == cross(p3, p4, p2)
        d3 == cross(p1, p2, p3)
        d4 == cross(p1, p2, p4)
    IN  /\ (d1 >= 0 /\ d2 <= 0) \/ (d1 <= 0 /\ d2 >= 0)
        /\ (d3 >= 0 /\ d4 <= 0) \/ (d3 <= 0 /\ d4 >= 0)

\* lines 168-179
segments_cross(p1, p2, p3, p4) ==
    LET d1 == cross(p3, p4, p1)
        d2 == cross(p3, p4, p2)
        d3 == cross(p1, p2, p3)
        d4 == cross(p1, p2, p4)
    IN  /\ (d1 > 0 /\ d2 < 0) \/ (d1 < 0 /\ d2 > 0)
        /\ (d3 > 0 /\ d4 < 0) \/ (d3 < 0 /\ d4 > 0)

\* lines 181-188
count_crossings_py(positions, edges_list) ==
    LET segs == [k \in DOMAIN edges_list |->
                    <<positions[edges_list[k][1]], positions[edges_list[k][2]]>>]
    IN  Cardinality({ij \in (DOMAIN segs) \X (DOMAIN segs) :
                        /\ ij[1] < ij[2]
                        /\ segments_cross(segs[ij[1]][1], segs[ij[1]][2],
                                          segs[ij[2]][1], segs[ij[2]][2])})

\* lines 192-195 and 199-202, in halves: the two layouts of the nodes 0..6
pos_nocross ==
    [k \in 0..6 |-> <<<<0, 0>>, <<2, 2>>, <<2, -2>>, <<4, 1>>, <<4, -1>>,
                      <<6, 0>>, <<8, 0>>>>[k + 1]]
pos_cross ==
    [k \in 0..6 |-> <<<<0, 0>>, <<2, 2>>, <<2, -2>>, <<4, -1>>, <<4, 1>>,
                      <<6, 0>>, <<8, 0>>>>[k + 1]]

\* the nodes of the middle layers, whose edges cross in one layout
CrossNodes == {1, 2, 3, 4}

SegmentCalls ==
    [fn : {"segments_cross"}, p1 : GridPoints, p2 : GridPoints,
     p3 : GridPoints, p4 : GridPoints]

CountCalls ==
    [fn : {"count_crossings_py"}, positions : {pos_nocross, pos_cross},
     edges_list : SeqsUpTo(CrossNodes \X CrossNodes, MaxEdges)]

CrossRet(value) == [status |-> "returned", value |-> value]

InitCross ==
    /\ call \in SegmentCalls \cup CountCalls
    /\ ret = IdleRet
    /\ validator = "none"
    /\ fileState = "ok"
    /\ status = "idle"
    /\ ip = 0
    /\ snapshot = <<>>
    /\ passed = 0
    /\ failed = 0
    /\ total = 0
    /\ details = <<>>
    /\ out = <<>>
    /\ exitCode = -1
    /\ cin = IdleCin
    /\ ks = IdleKs

CallSegmentsCross ==
    /\ ret = IdleRet
    /\ call.fn = "segments_cross"
    /\ ret' = CrossRet(segments_cross(call.p1, call.p2, call.p3, call.p4))
    /\ UNCHANGED runVars
    /\ UNCHANGED <<cin, ks, call>>

CallCountCrossings ==
    /\ ret = IdleRet
    /\ call.fn = "count_crossings_py"
    /\ ret' = CrossRet(count_crossings_py(call.positions, call.edges_list))
    /\ UNCHANGED runVars
    /\ UNCHANGED <<cin, ks, call>>

NextCross ==
    \/ CallSegmentsCross
    \/ CallCountCrossings

SpecCross == InitCross /\ [][NextCross]_vars

(***************************************************************************)
(* validate_supplementary.py: Julian dates.  Days and Julian dates are     *)
(* counted in halves (day2 = 2 * day, jd2 = 2 * jd); the decimal factors   *)
(* are the fractions the source writes (365.25 = 1461/4, 30.6001 =         *)
(* 306001/10000, 36524.25 = 146097/4, 122.1 = 1221/10).                    *)
(***************************************************************************)
MaxYearSpan == 4

\* math.floor(n / d) for d > 0
floor_div(n, d) == IF n >= 0 THEN n \div d ELSE 0 - (((0 - n) + d - 1) \div d)

\* the conversion without the shift of January and February to the end of
\* the year before
calendar_to_jd_unshifted(year, month, day2) ==
    LET a == floor_div(year, 100)
        b == 2 - a + floor_div(a, 4)
    IN  2 * (floor_div(1461 * (year + 4716), 4)
             + floor_div(306001 * (month + 1), 10000) + b)
        + day2 - 3049

\* lines 335-345
calendar_to_jd(year, month, day2) ==
    LET y == IF month <= 2 THEN year - 1 ELSE year
        m == IF month <= 2 THEN month + 12 ELSE month
        a == floor_div(y, 100)
        b == 2 - a + floor_div(a, 4)
    IN  2 * (floor_div(1461 * (y + 4716), 4)
             + floor_div(306001 * (m + 1), 10000) + b)
        + day2 - 3049

\* lines 348-364
jd_to_calendar(jd2) ==
    LET z == floor_div(jd2 + 1, 2)
        f2 == jd2 + 1 - 2 * z
        alpha == floor_div(4 * z - 7468865, 146097)
        a == IF z < 2299161 THEN z
             ELSE z + 1 + alpha - floor_div(alpha, 4)
        b == a + 1524
        c == floor_div(20 * b - 2442, 7305)
        d == floor_div(1461 * c, 4)
        e == floor_div(10000 * (b - d), 306001)
        day2 == 2 * (b - d - floor_div(306001 * e, 10000)) + f2
        month == IF e < 14 THEN e - 1 ELSE e - 13
        year == IF month > 2 THEN c - 4716 ELSE c - 4715
    IN  [year |-> year, month |-> month, day2 |-> day2]

IsLeap(y) == y % 4 = 0 /\ (y % 100 # 0 \/ y % 400 = 0)

DaysIn(y, m) ==
    IF m = 2 THEN (IF IsLeap(y) THEN 29 ELSE 28)
    ELSE IF m \in {4, 6, 9, 11} THEN 30 ELSE 31

\* the first Gregorian year, century years of either kind, and the years
\* from 2000 on
CalendarYears ==
    {1582, 1583, 1584, 1600, 1699, 1700, 1701, 1900, 1999}
        \cup 2000..(2000 + MaxYearSpan)

\* the Gregorian dates of these years, at midnight and at noon
CalendarDates ==
    {c \in [year : CalendarYears, month : 1..12, day2 : 2..63] :
        /\ c.day2 <= 2 * DaysIn(c.year, c.month) + 1
        /\ (c.year = 1582) =>
              (c.month > 10 \/ (c.month = 10 /\ c.day2 >= 30))}

JulianCalls ==
    {[fn |-> "calendar_to_jd", year |-> c.year, month |-> c.month,
      day2 |-> c.day2] : c \in CalendarDates}

InitJulian ==
    /\ call \in JulianCalls
    /\ ret = IdleRet
    /\ validator = "none"
    /\ fileState = "ok"
    /\ status = "idle"
    /\ ip = 0
    /\ snapshot = <<>>
    /\ passed = 0
    /\ failed = 0
    /\ total = 0
    /\ details = <<>>
    /\ out = <<>>
    /\ exitCode = -1
    /\ cin = IdleCin
    /\ ks = IdleKs

\* jd = calendar_to_jd(year, month, day)
CallCalendarToJd ==
    /\ ret = IdleRet
    /\ call.fn = "calendar_to_jd"
    /\ ret' = [status |-> "jd",
               jd2 |-> calendar_to_jd(call.year, call.month, call.day2)]
    /\ UNCHANGED runVars
    /\ UNCHANGED <<cin, ks, call>>

\* jd_to_calendar(jd)
CallJdToCalendar ==
    /\ ret.status = "jd"
    /\ ret' = [status |-> "calendar", jd2 |-> ret.jd2,
               date |-> jd_to_calendar(ret.jd2)]
    /\ UNCHANGED runVars
    /\ UNCHANGED <<cin, ks, call>>

NextJulian ==
    \/ CallCalendarToJd
    \/ CallJdToCalendar

SpecJulian == InitJulian /\ [][NextJulian]_vars

(***************************************************************************)
(* The anomaly conversions.  An angle is a pair <<u, t>>: u counts steps   *)
(* of pi / HalfTurn, and t in {-1, 0, 1} is an offset below the            *)
(* resolution of a double at 2 * pi, which a double can carry only next    *)
(* to zero (-1e-20 is a double, 2 * pi - 1e-20 is not).                    *)
(***************************************************************************)
HalfTurn == 4
MaxTurns == 2

FullTurn == 2 * HalfTurn

IsNegative(a) == a[1] < 0 \/ (a[1] = 0 /\ a[2] < 0)

\* a % (2.0 * math.pi): the remainder takes the sign of the divisor; for a
\* negative a below the resolution, a + 2 * pi rounds to 2 * pi
float_mod(a) ==
    IF a[1] = 0
    THEN (IF a[2] < 0 THEN <<FullTurn, 0>> ELSE a)
    ELSE <<a[1] % FullTurn, 0>>

\* lines 113-116 of validate.py and 388-390 of validate_supplementary.py
normalize(a) ==
    LET r == float_mod(a)
    IN  IF IsNegative(r) THEN <<r[1] + FullTurn, 0>> ELSE r

\* validate_supplementary.py normalize_angle
normalize_angle(a) == normalize(a)

\* the angle u brought into (-w, w]
Wrapped(u, w) ==
    LET r == u % (2 * w) IN IF r > w THEN r - 2 * w ELSE r

\* the values between p and the odd multiple of a half turn that bounds
\* its interval, that multiple left out: with e > 0 the conversion moves
\* the angle that way
Towards(p) ==
    IF p > HalfTurn THEN (HalfTurn + 1)..p
    ELSE IF p > 0 THEN p..(HalfTurn - 1)
    ELSE IF p > 0 - HalfTurn THEN (1 - HalfTurn)..p
    ELSE p..(0 - HalfTurn - 1)

Eccentricities == {"circular", "elliptic"}

\* validate.py lines 111-112: nu = 2 * atan(sqrt((1 + e) / (1 - e)) *
\* tan(E / 2)), before it is normalized.  At a multiple of 2 * pi the
\* tangent of the double is a rounding residue of either sign; at an odd
\* multiple of pi it is huge, of either sign.
nu_atan(E, e) ==
    LET p == Wrapped(E[1], HalfTurn)
    IN  IF E[1] = 0 THEN {E}
        ELSE IF p = 0 THEN {<<0, -1>>, <<0, 1>>}
        ELSE IF p = HalfTurn THEN {<<HalfTurn, 0>>, <<0 - HalfTurn, 0>>}
        ELSE IF e = "circular" THEN {<<p, 0>>}
        ELSE {<<v, 0>> : v \in Towards(p)}

\* validate_supplementary.py lines 380-383: 2 * atan2(sqrt(1 + e) *
\* sin(E / 2), sqrt(1 - e) * cos(E / 2)), returned as it is
nu_atan2(E, e) ==
    LET p == Wrapped(E[1], FullTurn)
    IN  IF E[1] = 0 THEN {E}
        ELSE IF p = 0 THEN {<<0, -1>>, <<0, 1>>}
        ELSE IF p = FullTurn THEN {<<FullTurn, 0>>, <<0 - FullTurn, 0>>}
        ELSE IF p \in {HalfTurn, 0 - HalfTurn} THEN {<<p, 0>>}
        ELSE IF e = "circular" THEN {<<p, 0>>}
        ELSE {<<v, 0>> : v \in Towards(p)}

\* validate.py eccentric_to_true_anomaly
validate_eccentric_to_true_anomaly(E, e) ==
    {normalize(nu) : nu \in nu_atan(E, e)}

\* validate_supplementary.py eccentric_to_true_anomaly
supplementary_eccentric_to_true_anomaly(E, e) == nu_atan2(E, e)

\* the input angles: the steps of two units within MaxTurns turns either
\* way, and the two smallest angles next to zero
InputAngles ==
    {<<2 * k, 0>> : k \in (0 - MaxTurns * HalfTurn)..(MaxTurns * HalfTurn)}
        \cup {<<0, -1>>, <<0, 1>>}

AnomalyCalls ==
    [fn : {"validate.eccentric_to_true_anomaly",
           "supplementary.eccentric_to_true_anomaly"},
     angle : InputAngles, e : Eccentricities]
        \cup [fn : {"normalize_angle"}, angle : InputAngles, e : {"circular"}]

AngleRet(value) == [status |-> "returned", value |-> value]

InitAnomaly ==
    /\ call \in AnomalyCalls
    /\ ret = IdleRet
    /\ validator = "none"
    /\ fileState = "ok"
    /\ status = "idle"
    /\ ip = 0
    /\ snapshot = <<>>
    /\ passed = 0
    /\ failed = 0
    /\ total = 0
    /\ details = <<>>
    /\ out = <<>>
    /\ exitCode = -1
    /\ cin = IdleCin
    /\ ks = IdleKs

CallValidateAnomaly ==
    /\ ret = IdleRet
    /\ call.fn = "validate.eccentric_to_true_anomaly"
    /\ \E nu \in validate_eccentric_to_true_anomaly(call.angle, call.e) :
          ret' = AngleRet(nu)
    /\ UNCHANGED runVars
    /\ UNCHANGED <<cin, ks, call>>

CallSupplementaryAnomaly ==
    /\ ret = IdleRet
    /\ call.fn = "supplementary.eccentric_to_true_anomaly"
    /\ \E nu \in supplementary_eccentric_to_true_anomaly(call.angle, call.e) :
          ret' = AngleRet(nu)
    /\ UNCHANGED runVars
    /\ UNCHANGED <<cin, ks, call>>

CallNormalizeAngle ==
    /\ ret = IdleRet
    /\ call.fn = "normalize_angle"
    /\ ret' = AngleRet(normalize_angle(call.angle))
    /\ UNCHANGED runVars
    /\ UNCHANGED <<cin, ks, call>>

NextAnomaly ==
    \/ CallValidateAnomaly
    \/ CallSupplementaryAnomaly
    \/ CallNormalizeAngle

SpecAnomaly == InitAnomaly /\ [][NextAnomaly]_vars

(***************************************************************************)
(* validate_supplementary.py: the mass timeline.  Masses are whole         *)
(* kilograms; the share of the mass that a burn consumes,                  *)
(* 1 - exp(-dv / (Isp * g0)), is written in parts per million, the margin  *)
(* in thousandths.                                                         *)
(***************************************************************************)
MaxDrySteps == 8
MaxPropDigits == 5

\* 1 - 1 / mr for dv = 5 km/s and for dv = 3 km/s at Isp = 1e6 s
Burn1Ppm == 510
Burn2Ppm == 306
JettisonKg == 50000
DryStepKg == 25000

\* mass_kg * (1.0 - 1.0 / mr)
propellant_consumed(mass_kg, ppm) == RoundDiv(mass_kg * ppm, 1000000)

\* min(a, b)
Min(a, b) == IF a <= b THEN a ELSE b

TimelineRaised(exc) == [status |-> exc]

\* lines 240-279
compute_test_timeline(initial_total, initial_dry) ==
    LET propellant0 == initial_total - initial_dry
        consumed1 == Min(propellant_consumed(initial_dry + propellant0,
                                             Burn1Ppm), propellant0)
        propellant1 == propellant0 - consumed1
        dry == initial_dry - JettisonKg
        consumed2 == Min(propellant_consumed(dry + propellant1, Burn2Ppm),
                         propellant1)
        propellant2 == propellant1 - consumed2
        initial_prop == initial_total - initial_dry
    IN  IF initial_prop = 0 THEN TimelineRaised("ZeroDivisionError")
        ELSE [status |-> "returned",
              after_burn1 |-> propellant1,
              final_total_kg |-> dry + propellant2,
              final_dry_kg |-> dry,
              final_propellant_kg |-> propellant2,
              total_consumed_kg |-> consumed1 + consumed2,
              margin |-> RoundDiv(propellant2 * 1000, initial_prop)]

TimelineCalls ==
    {[fn |-> "compute_test_timeline", initial_total |-> d + p,
      initial_dry |-> d] :
        d \in {DryStepKg * k : k \in 0..MaxDrySteps},
        p \in {0} \cup {10 ^ k : k \in 0..MaxPropDigits}}

InitTimeline ==
    /\ call \in TimelineCalls
    /\ ret = IdleRet
    /\ validator = "none"
    /\ fileState = "ok"
    /\ status = "idle"
    /\ ip = 0
    /\ snapshot = <<>>
    /\ passed = 0
    /\ failed = 0
    /\ total = 0
    /\ details = <<>>
    /\ out = <<>>
    /\ exitCode = -1
    /\ cin = IdleCin
    /\ ks = IdleKs

CallTimeline ==
    /\ ret = IdleRet
    /\ call.fn = "compute_test_timeline"
    /\ ret' = compute_test_timeline(call.initial_total, call.initial_dry)
    /\ UNCHANGED runVars
    /\ UNCHANGED <<cin, ks, call>>

NextTimeline == CallTimeline

SpecTimeline == InitTimeline /\ [][NextTimeline]_vars

(***************************************************************************)
(* The snapshot path of each entry point.  args is sys.argv without the    *)
(* script name: sys.argv[k + 1] is args[k].                                *)
(***************************************************************************)
MaxArgs == 3

ArgTokens == {"--json", "alt.json", "-v"}
ArgLists == SeqsUpTo(ArgTokens, MaxArgs)

Opened(path) == [status |-> "opened", path |-> path]
NoSnapshot == [status |-> "no snapshot", path |-> ""]

\* validate.py: the option is honoured as the first argument only
validate_json_path(args) ==
    IF Len(args) >= 2 /\ args[1] = "--json"
    THEN Opened(args[2])
    ELSE Opened("script_dir/rust_values.json")

\* validate_poliastro.py: as validate.py
poliastro_json_path(args) ==
    IF Len(args) >= 2 /\ args[1] = "--json"
    THEN Opened(args[2])
    ELSE Opened("script_dir/rust_values.json")

\* validate_supplementary.py: the option is honoured anywhere; the
\* argument after its first occurrence is the path, and there must be one
supplementary_json_path(args) ==
    IF \E k \in 1..Len(args) : args[k] = "--json"
    THEN LET idx == CHOOSE k \in 1..Len(args) :
                        /\ args[k] = "--json"
                        /\ \A j \in 1..(k - 1) : args[j] # "--json"
         IN  IF idx + 1 <= Len(args)
             THEN Opened(args[idx + 1])
             ELSE Raised("IndexError")
    ELSE Opened("cwd/cross_validation/rust_values.json")

\* validate_dag.py: the path is fixed, the arguments are not read
dag_json_path(args) == Opened("script_dir/dag_values.json")

\* validate_trim_thrust.py: no snapshot is read, the arguments are not read
trim_thrust_json_path(args) == NoSnapshot

json_path(v, args) ==
    CASE v = "validate" -> validate_json_path(args)
      [] v = "dag" -> dag_json_path(args)
      [] v = "poliastro" -> poliastro_json_path(args)
      [] v = "supplementary" -> supplementary_json_path(args)
      [] v = "trim_thrust" -> trim_thrust_json_path(args)

DefaultPath(v) == json_path(v, <<>>)

InitArgs ==
    /\ validator \in Validators
    /\ call \in [fn : {"json_path"}, args : ArgLists]
    /\ ret = IdleRet
    /\ fileState = "ok"
    /\ status = "idle"
    /\ ip = 0
    /\ snapshot = <<>>
    /\ passed = 0
    /\ failed = 0
    /\ total = 0
    /\ details = <<>>
    /\ out = <<>>
    /\ exitCode = -1
    /\ cin = IdleCin
    /\ ks = IdleKs

\* the first statements of main(): choose the path and open it
OpenSnapshot ==
    /\ ret = IdleRet
    /\ call.fn = "json_path"
    /\ ret' = json_path(validator, call.args)
    /\ UNCHANGED runVars
    /\ UNCHANGED <<cin, ks, call>>

NextArgs == OpenSnapshot

SpecArgs == InitArgs /\ [][NextArgs]_vars

(***************************************************************************)
(* Properties                                                              *)
(***************************************************************************)
HasEvent(kind) == \E i \in 1..Len(out) : out[i].kind = kind

Traceback(exc) ==
    \E i \in 1..Len(out) : out[i].kind = "traceback" /\ out[i].name = exc

\* the steps before position n that record an outcome when they complete
ChecksBefore(v, n) ==
    Cardinality({i \in 1..(n - 1) : Program(v)[i].op \in {"check", "assert"}})

FailLinesOf(lines) ==
    Cardinality({i \in 1..Len(lines) : lines[i].status = "FAIL"})

\* C1: a validator that reaches its final summary and exits does so with
\* status 0 exactly when its failed count is zero, and with status 1
\* whenever at least one check failed.
C1_ExitStatusReflectsFailures ==
    status = "exited" =>
        /\ HasEvent("summary")
        /\ (exitCode = 0) <=> (failed = 0)
        /\ (failed >= 1) => (exitCode = 1)

C1_Witness ==
    /\ status = "exited"
    /\ validator = "validate"
    /\ failed >= 1
    /\ exitCode = 1

\* C2: a range or sanity check on an exported value that comes out negative
\* never raises: no run ends at such a check with an AssertionError.
C2_NegativeJudgementNeverRaises ==
    ~(/\ status = "crashed"
      /\ Cur.op \in {"assert", "oberth_assert"}
      /\ Traceback("AssertionError"))

\* the error measure and the verdict as the contract words them
ContractE(c, r, abs_tol) ==
    IF c = 0 /\ r = 0 THEN <<0, 1>>
    ELSE IF Abs(r) > abs_tol THEN <<Abs(c - r), Abs(r)>>
    ELSE <<Abs(c - r), 1>>

ContractPass(c, r, rel_tol, abs_tol) ==
    Leq(ContractE(c, r, abs_tol), rel_tol) \/ Abs(c - r) <= abs_tol

\* C3: ValidationResult.check of validate.py and of validate_poliastro.py
\* records PASS exactly when E <= rel_tol or |c - r| <= abs_tol, and FAIL
\* otherwise, with E as the contract defines it.
C3_PassIffWithinTolerance ==
    (status = "checked" /\ validator \in {"validate", "poliastro"}) =>
        LET ok == ContractPass(cin.c, cin.r, cin.rel_tol, cin.abs_tol)
        IN  /\ Len(details) = 1
            /\ details[1].status = (IF ok THEN "PASS" ELSE "FAIL")
            /\ passed = (IF ok THEN 1 ELSE 0)
            /\ failed = (IF ok THEN 0 ELSE 1)

\* the absolute criterion alone lets a comparison pass
C3_Witness ==
    /\ status = "checked"
    /\ validator = "validate"
    /\ passed = 1
    /\ Abs(cin.c - cin.r) <= cin.abs_tol
    /\ ~Leq(ContractE(cin.c, cin.r, cin.abs_tol), cin.rel_tol)

\* C4: check of validate_supplementary.py classifies every comparison as
\* ValidationResult.check of validate.py does.
C4_SameClassification ==
    (validator = "supplementary" /\ status \in {"checked", "crashed"}) =>
        /\ status = "checked"
        /\ (passed = 1) <=> vr_ok(cin.c, cin.r, cin.rel_tol, cin.abs_tol)

\* the error a comparison recorded
RecordedErr ==
    IF validator = "supplementary" THEN out[1].lines[1].err
    ELSE details[1].err

\* C5: in every comparator, a candidate and a reference that are both
\* within abs_tol of zero pass with error 0.
C5_NearZeroPassesWithZeroError ==
    (/\ status \in {"checked", "crashed"}
     /\ Abs(cin.c) <= cin.abs_tol
     /\ Abs(cin.r) <= cin.abs_tol) =>
        /\ status = "checked"
        /\ passed = 1
        /\ IsZero(RecordedErr)

\* C6: in every validator each failed check is written to the error stream
\* when it is evaluated, and is a detail line of the final summary.
C6_FailuresStreamedAndSummarised ==
    /\ Cardinality({i \in 1..Len(out) :
                      out[i].stream = "stderr" /\ out[i].kind = "detail"})
          = failed
    /\ \A i \in 1..Len(out) :
          out[i].kind = "summary" => FailLinesOf(out[i].lines) = failed

\* C7: with a missing or unparsable snapshot file, a validator that loads
\* one ends at the load with an uncaught error: no check is executed or
\* counted, no summary is printed, the exit status is not zero.
C7_LoadFailureIsFatal ==
    (validator \in Loaders /\ fileState # "ok") =>
        /\ ip = 1
        /\ passed = 0 /\ failed = 0 /\ details = <<>>
        /\ snapshot = <<>>
        /\ ~HasEvent("summary") /\ ~HasEvent("detail") /\ ~HasEvent("line")
        /\ status \in {"running", "crashed"}
        /\ status = "crashed" =>
              /\ exitCode = 1
              /\ out = <<Ev("stderr", "traceback", LoadResult(fileState),
                            <<>>, <<>>)>>

C7_Witness ==
    /\ validator = "supplementary"
    /\ fileState = "malformed"
    /\ status = "crashed"
    /\ exitCode = 1

\* C8 as stated: when a section or field is absent the run aborts at the
\* lookup and nothing of a report is emitted, not even the failure lines
\* of earlier checks.
C8_NoReportAtAll ==
    \A i \in DOMAIN snapshot :
        snapshot[i].kind = "absent" =>
            /\ status = "crashed"
            /\ exitCode # 0
            /\ \A j \in 1..Len(out) :
                  out[j].kind \notin {"detail", "line", "summary", "json"}

\* C8: when a section or field is absent the run aborts at the lookup with
\* a KeyError: no later step executes, no outcome is recorded after it, no
\* summary is printed, no JSON summary is written, the exit status is 1;
\* the lines that earlier checks emitted stay in the output.
C8_AbortAtLookup ==
    \A i \in DOMAIN snapshot :
        snapshot[i].kind = "absent" =>
            /\ status = "crashed"
            /\ exitCode = 1
            /\ ip = i
            /\ \A j \in DOMAIN snapshot : j <= i
            /\ passed + failed = ChecksBefore(validator, i)
            /\ ~HasEvent("summary") /\ ~HasEvent("json")
            /\ out[Len(out)] = Ev("stderr", "traceback", "KeyError", <<>>, <<>>)

\* a section is absent after an earlier check failed and printed its line
C8_Witness ==
    /\ status = "crashed"
    /\ validator = "poliastro"
    /\ Cur.op = "section"
    /\ ip \in DOMAIN snapshot
    /\ snapshot[ip].kind = "absent"
    /\ failed >= 1
    /\ HasEvent("detail")

\* C9: a missing or malformed candidate value of a check does not abort the
\* run: it is recorded as a failed check and the run goes on.
C9_MissingValueRecordedAsFailure ==
    \A i \in DOMAIN snapshot :
        (Program(validator)[i].op = "check"
           /\ snapshot[i].kind \in {"absent", "malformed"}) =>
            /\ status # "crashed"
            /\ failed >= 1
            /\ ip > i

\* C10: every Kepler solver takes at most 50 Newton steps and returns only
\* after a step below the tolerance.
C10_BoundedAndConverged ==
    /\ ks.iter <= 50
    /\ ks.status = "returned" => ks.small

\* C11: every computation of the outbound excess speed clamps a negative
\* radicand to zero: it returns v_inf_out = 0 and raises nothing, for every
\* burn_dv.
C11_NegativeRadicandClamped ==
    (/\ call.fn \in FlybyFns
     /\ ret # IdleRet
     /\ call.v_inf > 0
     /\ OutboundRadicand(call.mu, call.r_peri, call.v_inf, call.burn_dv) < 0) =>
        /\ ret.status = "returned"
        /\ ret.v_inf_out = 0

\* C16: for v_inf >= 0 and burn_dv > 0 the excess speed gained exceeds the
\* burn: powered_flyby returns v_inf_out - v_inf > burn_dv, oberth_dv_gain
\* and oberth_efficiency return a value > 0.
C16_GainExceedsBurn ==
    (/\ call.fn \in {"powered_flyby", "oberth_dv_gain", "oberth_efficiency"}
     /\ ret # IdleRet
     /\ call.burn_dv > 0) =>
        /\ ret.status = "returned"
        /\ ret.v_inf_out - call.v_inf > call.burn_dv
        /\ call.fn # "powered_flyby" => ret.value[1] > 0

\* C12: a failure of the integrator behind a propagation check does not
\* abort the run: no run ends at the propagation with an uncaught error.
C12_IntegratorFailureIsLocal ==
    ~(/\ status = "crashed"
      /\ validator = "validate"
      /\ Cur.op = "derive"
      /\ Cur.key = "propagate_kepler_scipy"
      /\ Traceback("RuntimeError")
      /\ ~HasEvent("summary"))

\* the closure of a node as a set
Expected(c) ==
    IF c.fn = "all_upstream" THEN ancestors(c.edges, c.n, c.node)
    ELSE descendants(c.edges, c.n, c.node)

\* C13 as stated: the all_upstream[i] and all_downstream[i] checks pass
\* exactly when the export, taken as a set, equals the set of transitive
\* ancestors (descendants) of i.
C13_PassIffSetEqual ==
    (call.fn \in {"all_upstream", "all_downstream"} /\ ret # IdleRet) =>
        (ret.ok <=> (Range(call.export) = Expected(call)))

\* C13: the all_upstream[i] and all_downstream[i] checks pass exactly when
\* the export lists every transitive ancestor (descendant) of i once and
\* nothing else, in any order; equal cardinality alone never suffices.
C13_PassIffEachOnce ==
    (call.fn \in {"all_upstream", "all_downstream"} /\ ret # IdleRet) =>
        (ret.ok <=> (/\ Range(call.export) = Expected(call)
                     /\ Len(call.export) = Cardinality(Expected(call))))

\* an export in another order than the sorted one passes
C13_Witness ==
    /\ call.fn = "all_upstream"
    /\ ret # IdleRet
    /\ ret.ok
    /\ Len(call.export) = 2
    /\ call.export[1] > call.export[2]

\* a permutation of the nodes in which every edge's source precedes its target
ValidOrder(order, E, n) ==
    /\ Len(order) = n
    /\ Range(order) = NodesOf(n)
    /\ \A e \in E :
          \E i \in DOMAIN order, j \in DOMAIN order :
              order[i] = e[1] /\ order[j] = e[2] /\ i < j

\* C14: for an acyclic graph, every permutation of the nodes in which each
\* edge's source precedes its target passes topo_sort_valid and
\* topo_sort_length, whatever order the library itself lists.
C14_AnyValidOrderPasses ==
    (/\ call.fn = "topo_sort"
     /\ ret # IdleRet
     /\ ~call.flag
     /\ ~has_cycle(call.edges, call.n)
     /\ ValidOrder(call.export, call.edges, call.n)) =>
        /\ ret.status = "returned"
        /\ ret.ok
        /\ ret.ok2

\* a valid order other than the one the library lists passes
C14_Witness ==
    /\ call.fn = "topo_sort"
    /\ ret # IdleRet
    /\ ~call.flag
    /\ call.n = MaxNodes
    /\ call.edges # {}
    /\ ValidOrder(call.export, call.edges, call.n)
    /\ call.export # library_order(call.edges, NodesOf(call.n))
    /\ ret.ok /\ ret.ok2

\* C15: for every graph, cyclic or not, the run reaches the has_cycle check,
\* and the check passes exactly when the exported boolean equals whether
\* the graph has a directed cycle.
C15_HasCycleCheckedOnEveryGraph ==
    (call.fn = "has_cycle" /\ ret # IdleRet) =>
        /\ ret.status = "returned"
        /\ ret.ok <=> (call.flag = has_cycle(call.edges, call.n))

\* C17 as stated: both burns are non-negative, hohmann_dv(mu, r2, r1) is the
\* pair of hohmann_dv(mu, r1, r2) swapped, the totals agree, and both burns
\* are zero when r1 = r2.
C17_SymmetricAndZeroWhenEqual ==
    (call.fn = "hohmann_dv" /\ ret # IdleRet) =>
        LET back == hohmann_dv(call.mu, call.r2, call.r1)
        IN  /\ ret.status = "returned"
            /\ ret.dv1 >= 0 /\ ret.dv2 >= 0
            /\ back.dv1 = ret.dv2 /\ back.dv2 = ret.dv1
            /\ back.dv1 + back.dv2 = ret.dv1 + ret.dv2
            /\ (call.r1 = call.r2) => (ret.dv1 = 0 /\ ret.dv2 = 0)

\* C17: both burns are non-negative, hohmann_dv(mu, r2, r1) is the pair of
\* hohmann_dv(mu, r1, r2) swapped, and the totals agree; when r1 = r2 the
\* two burns are equal.
C17_SymmetricInDirection ==
    (call.fn = "hohmann_dv" /\ ret # IdleRet) =>
        LET back == hohmann_dv(call.mu, call.r2, call.r1)
        IN  /\ ret.status = "returned"
            /\ ret.dv1 >= 0 /\ ret.dv2 >= 0
            /\ back.dv1 = ret.dv2 /\ back.dv2 = ret.dv1
            /\ back.dv1 + back.dv2 = ret.dv1 + ret.dv2
            /\ (call.r1 = call.r2) => (ret.dv1 = ret.dv2)

\* an inward transfer with two burns that differ
C17_Witness ==
    /\ call.fn = "hohmann_dv"
    /\ ret # IdleRet
    /\ call.r1 > call.r2
    /\ ret.status = "returned"
    /\ ret.dv1 > 0
    /\ ret.dv2 > ret.dv1

\* the steps of kind op before position n of the program of v
StepsBefore(v, op, n) ==
    Cardinality({i \in 1..(n - 1) : Program(v)[i].op = op})

Summaries == Cardinality({i \in 1..Len(out) : out[i].kind = "summary"})

Recorded == passed + failed + total

\* every step before the current position has run, whatever the earlier
\* outcomes were: the counters account for each of them
RanInProgramOrder ==
    /\ ip \in 1..Len(Program(validator))
    /\ validator \in Loaders =>
          passed + failed = ChecksBefore(validator, ip)
    /\ validator = "trim_thrust" =>
          total = StepsBefore(validator, "scenario", ip)

SummarisedLast ==
    /\ Summaries <= 1
    /\ Summaries = StepsBefore(validator, "summary", ip)
    /\ HasEvent("summary") =>
          \A i \in ip..Len(Program(validator)) :
              Program(validator)[i].op \notin {"check", "assert", "scenario"}

\* one step of a run: the position moves on by one or stays, and nothing is
\* recorded once the summary is out
RunStep ==
    /\ validator' = validator
    /\ ip' \in {ip, ip + 1}
    /\ HasEvent("summary") =>
          UNCHANGED <<passed, failed, total, details>>

OverrideGiven(args) ==
    \E k \in 1..(Len(args) - 1) : args[k] = "--json"

\* the path that follows the first occurrence of the option
OverridePath(args) ==
    LET k == CHOOSE k \in 1..(Len(args) - 1) :
                 /\ args[k] = "--json"
                 /\ \A j \in 1..(k - 1) : args[j] # "--json"
    IN  args[k + 1]

\* C19: each of the five entry points reads its candidate values from PATH
\* when invoked with --json PATH, and from its default location only when
\* no override is given.
C19_OverrideHonoured ==
    (call.fn = "json_path" /\ ret # IdleRet) =>
        /\ ret.status = "opened"
        /\ ret.path = IF OverrideGiven(call.args)
                      THEN OverridePath(call.args)
                      ELSE DefaultPath(validator).path

\* the entry points whose accumulator keeps a detail list
Listing == {"validate", "poliastro", "dag"}

\* the names of the recording steps of v, in program order
CheckKeys(v) ==
    LET recs == SelectSeq(Program(v),
                          LAMBDA st : st.op \in {"check", "assert"})
    IN  [k \in 1..Len(recs) |-> recs[k].key]

\* the checks executed so far: recording steps and scenarios passed
ExecutedChecks ==
    ChecksBefore(validator, ip) + StepsBefore(validator, "scenario", ip)

\* the list only ever grows at its end
DetailsAppendOnly ==
    \/ details' = details
    \/ /\ Len(details') = Len(details) + 1
       /\ SubSeq(details', 1, Len(details)) = details

\* the reports of a run (the printed summary, the exported document) list
\* the details of the executed checks, one each, in the order of execution
ReportListsChecks ==
    \A i \in 1..Len(out) :
        out[i].kind \in {"summary", "json"} =>
            /\ Len(out[i].lines) = ExecutedChecks
            /\ \A k \in 1..Len(out[i].lines) :
                  out[i].lines[k].name = CheckKeys(validator)[k]
            /\ out[i].lines = details

C27_PassingOrderIsTopological ==
    (call.fn = "topo_sort" /\ ret.status = "returned" /\ ret.ok /\ ret.ok2) =>
        /\ ~call.flag
        /\ Len(call.export) = call.n
        /\ Range(call.export) = NodesOf(call.n)
        /\ \A e \in call.edges :
              \E i, j \in DOMAIN call.export :
                  /\ i < j
                  /\ call.export[i] = e[1]
                  /\ call.export[j] = e[2]

\* whether a directed path of k edges ends at node i
RECURSIVE PathEndsAt(_, _, _, _)
PathEndsAt(E, n, i, k) ==
    IF k = 0 THEN TRUE
    ELSE \E j \in NodesOf(n) : <<j, i>> \in E /\ PathEndsAt(E, n, j, k - 1)

\* the number of edges of the longest directed path ending at node i of an
\* acyclic graph
LongestTo(E, n, i) ==
    CHOOSE k \in 0..(n - 1) :
        /\ PathEndsAt(E, n, i, k)
        /\ \A m \in (k + 1)..n : ~PathEndsAt(E, n, i, m)

\* C21: on an acyclic graph over the nodes 0..node_count-1 the reference
\* depth of every node is the number of edges of the longest directed path
\* ending at it, and the depth[i] check passes exactly when the candidate's
\* depth for i equals it.
C21_DepthIsLongestPath ==
    (call.fn = "depth" /\ ret # IdleRet /\ ~has_cycle(call.edges, call.n)) =>
        /\ ret.status = "returned"
        /\ \A i \in NodesOf(call.n) :
              ret.depths[i] = LongestTo(call.edges, call.n, i)
        /\ ret.ok <=> (call.depth = LongestTo(call.edges, call.n, call.node))

\* a node at depth 2 whose candidate depth is accepted
C21_Witness ==
    /\ call.fn = "depth"
    /\ ret # IdleRet
    /\ ret.status = "returned"
    /\ ret.depths[call.node] = 2
    /\ ret.ok

\* the number of edges of the longest directed path of an acyclic graph
LongestOverall(E, n) ==
    LET lens == {LongestTo(E, n, i) : i \in NodesOf(n)}
    IN  CHOOSE m \in lens : \A x \in lens : x <= m

\* C22: on an acyclic graph, when the critical_path_length,
\* critical_path_depth and critical_path_valid checks all pass, the
\* candidate's critical path is a directed path of the graph (its nodes are
\* graph nodes, every consecutive pair is an edge) with max depth + 1
\* nodes.
C22_PassingPathIsCritical ==
    (/\ call.fn = "critical_path"
     /\ ret # IdleRet
     /\ ~has_cycle(call.edges, call.n)
     /\ ret.ok_length /\ ret.ok_depth /\ ret.ok_valid) =>
        /\ Range(call.rust_crit) \subseteq NodesOf(call.n)
        /\ \A k \in 1..(Len(call.rust_crit) - 1) :
              <<call.rust_crit[k], call.rust_crit[k + 1]>> \in call.edges
        /\ Len(call.rust_crit) = LongestOverall(call.edges, call.n) + 1

\* C28: the node_count check passes exactly when every edge endpoint of
\* the snapshot lies in 0..node_count-1, that is when the rebuilt graph has
\* exactly the nodes 0..node_count-1; the edge_count check passes exactly
\* when the exported edge_count is the number of distinct (from, to) pairs
\* of the edge list.
C28_CountsPassIffSameIdentities ==
    (call.fn = "build" /\ ret # IdleRet) =>
        LET ends == {call.edge_list[k][1] : k \in DOMAIN call.edge_list}
                      \cup {call.edge_list[k][2] : k \in DOMAIN call.edge_list}
            pairs == {call.edge_list[k] : k \in DOMAIN call.edge_list}
        IN  /\ ret.ok_nodes <=> ends \subseteq NodesOf(call.n)
            /\ ret.ok_nodes <=>
                  graph_nodes(call.n, call.edge_list) = NodesOf(call.n)
            /\ ret.ok_edges <=> call.edge_count = Cardinality(pairs)

\* an edge listed twice, counted once, with both checks passing
C28_Witness ==
    /\ call.fn = "build"
    /\ ret # IdleRet
    /\ Len(call.edge_list) = 2
    /\ call.edge_list[1] = call.edge_list[2]
    /\ call.edge_count = 1
    /\ ret.ok_nodes
    /\ ret.ok_edges

Reversed(l) == [k \in DOMAIN l |-> l[Len(l) + 1 - k]]

\* the list with the direction of its k-th edge turned round
Turned(l, k) == [l EXCEPT ![k] = <<l[k][2], l[k][1]>>]

\* C30: segments_cross is the same with the two segments exchanged and with
\* a segment turned round, and is false when the segments have an endpoint
\* in common; count_crossings_py does not depend on the order of the edges
\* or on the direction of any edge, and counts no pair of edges that share
\* an endpoint position.
C30_CrossingsSymmetricAndProper ==
    /\ (call.fn = "segments_cross" /\ ret # IdleRet) =>
          /\ ret.value = segments_cross(call.p3, call.p4, call.p1, call.p2)
          /\ ret.value = segments_cross(call.p2, call.p1, call.p3, call.p4)
          /\ ({call.p1, call.p2} \cap {call.p3, call.p4} # {}) => ~ret.value
    /\ (call.fn = "count_crossings_py" /\ ret # IdleRet) =>
          /\ ret.value =
                count_crossings_py(call.positions, Reversed(call.edges_list))
          /\ \A k \in DOMAIN call.edges_list :
                ret.value =
                   count_crossings_py(call.positions,
                                      Turned(call.edges_list, k))
          /\ (\A a, b \in DOMAIN call.edges_list :
                 a # b => Range(call.edges_list[a])
                             \cap Range(call.edges_list[b]) # {})
                => ret.value = 0

\* two edges of the crossed layout that cross, counted once
C30_Witness ==
    /\ call.fn = "count_crossings_py"
    /\ ret # IdleRet
    /\ call.positions = pos_cross
    /\ Len(call.edges_list) = 2
    /\ ret.value = 1

\* C23: for every Gregorian date on or after 1582-10-15 of the years
\* covered, at midnight or at noon, jd_to_calendar(calendar_to_jd(year,
\* month, day)) is (year, month, day); calendar_to_jd(2000, 1, 1.5) is
\* 2451545.0 and jd_to_calendar(2451545.0) is (2000, 1, 1.5).
C23_JulianDateRoundTrips ==
    /\ (call.fn = "calendar_to_jd" /\ ret.status = "calendar") =>
          /\ ret.date.year = call.year
          /\ ret.date.month = call.month
          /\ ret.date.day2 = call.day2
    /\ (call.fn = "calendar_to_jd" /\ ret.status \in {"jd", "calendar"}
          /\ call.year = 2000 /\ call.month = 1 /\ call.day2 = 3) =>
          ret.jd2 = 2 * 2451545
    /\ calendar_to_jd(2000, 1, 3) = 2 * 2451545
    /\ jd_to_calendar(2 * 2451545) = [year |-> 2000, month |-> 1, day2 |-> 3]

\* the 29th of February of a leap century year, at noon, back from its
\* Julian date
C23_Witness ==
    /\ call.fn = "calendar_to_jd"
    /\ ret.status = "calendar"
    /\ call.year = 2000 /\ call.month = 2 /\ call.day2 = 59
    /\ ret.date = [year |-> 2000, month |-> 2, day2 |-> 59]

\* C24: every anomaly conversion (eccentric_to_true_anomaly of validate.py
\* and of validate_supplementary.py, normalize_angle) returns an angle in
\* [0, 2 * pi) for every input angle and every eccentricity 0 <= e < 1.
C24_AnglesInHalfOpenTurn ==
    (call.fn \in {"validate.eccentric_to_true_anomaly",
                  "supplementary.eccentric_to_true_anomaly",
                  "normalize_angle"} /\ ret # IdleRet) =>
        /\ ~IsNegative(ret.value)
        /\ ret.value[1] < FullTurn

\* C29: for every initial_total >= initial_dry, compute_test_timeline
\* returns; the propellant left after each burn is not negative and not
\* more than before that burn; total_consumed_kg + final_propellant_kg is
\* the initial propellant; final_total_kg = final_dry_kg +
\* final_propellant_kg; the result is a function of the two inputs.
C29_PropellantConserved ==
    (call.fn = "compute_test_timeline" /\ ret # IdleRet
       /\ call.initial_total >= call.initial_dry) =>
        LET initial == call.initial_total - call.initial_dry
        IN  /\ ret.status = "returned"
            /\ 0 <= ret.after_burn1 /\ ret.after_burn1 <= initial
            /\ 0 <= ret.final_propellant_kg
            /\ ret.final_propellant_kg <= ret.after_burn1
            /\ ret.total_consumed_kg + ret.final_propellant_kg = initial
            /\ ret.final_total_kg = ret.final_dry_kg + ret.final_propellant_kg
            /\ ret = compute_test_timeline(call.initial_total,
                                           call.initial_dry)

\* the entry points with a ValidationResult accumulator
Accumulating == {"validate", "poliastro"}

\* one step of the accumulator: no counter decreases, and a step that
\* records a detail line raises exactly one counter, by one
CountersStep ==
    /\ passed' >= passed
    /\ failed' >= failed
    /\ (validator \in Accumulating) =>
          \/ /\ details' = details
             /\ passed' = passed
             /\ failed' = failed
          \/ /\ Len(details') = Len(details) + 1
             /\ \/ passed' = passed + 1 /\ failed' = failed
                \/ passed' = passed /\ failed' = failed + 1

\* C25: in validate.py and validate_poliastro.py, after any sequence of
\* checks, the range checks included, passed + failed is the number of
\* detail lines; no counter ever decreases; each check raises exactly one
\* of the two counters by one; the exported total_checks is the length of
\* the exported details.
C25_CountersMatchDetails ==
    /\ []((validator \in Accumulating) =>
             /\ passed + failed = Len(details)
             /\ \A i \in 1..Len(out) :
                   out[i].kind = "json" =>
                      /\ out[i].counts[1] = Len(out[i].lines)
                      /\ out[i].counts[1] = out[i].counts[2] + out[i].counts[3])
    /\ [][CountersStep]_vars

\* a run of validate.py that has passed both range checks after a failed
\* check
C25_Witness ==
    /\ validator = "validate"
    /\ status = "exited"
    /\ failed > 0
    /\ Len(details) = 6
    /\ details[Len(details)].name = "planet_delay_ej_range"

\* C26: in validate_trim_thrust.py the failure count of the summary counts
\* failed scenarios: a scenario adds at most 1 to it whatever tolerances it
\* violates, so failures <= total holds throughout the loop and in the
\* summary.
C26_FailuresCountScenarios ==
    /\ []((validator = "trim_thrust") =>
             /\ failed <= total
             /\ \A i \in 1..Len(out) :
                   out[i].kind = "summary" =>
                      out[i].counts[1] <= out[i].counts[2])
    /\ [][(validator = "trim_thrust") => failed' <= failed + 1]_vars

====
